---------------------------- MODULE Spec2Model ----------------------------
(* Model of python/blob_reader.py (guess_content_type, safe_decode,        *)
(* download_blob_to_text) and of python/test_blob_reader.py                *)
(* (download_and_show).  Bytes are the integers 0..255, byte strings are   *)
(* sequences of bytes, decoded text is a sequence of Unicode code points.  *)
EXTENDS Integers, Sequences, FiniteSets, TLC

VARIABLES c_data, sample_size, verdict, c_pc,
          byteorder, blob_name, blob_data, encoding, caller_fallbacks,
          pc, data, sd_arg, fallback_encodings, idx, attempts,
          result, exc, ret, branch, propagated

classifier_vars == <<c_data, sample_size, verdict, c_pc>>
decoder_vars == <<byteorder, blob_name, blob_data, encoding, caller_fallbacks,
                  pc, data, sd_arg, fallback_encodings, idx, attempts,
                  result, exc, ret, branch, propagated>>
vars == <<c_data, sample_size, verdict, c_pc,
          byteorder, blob_name, blob_data, encoding, caller_fallbacks,
          pc, data, sd_arg, fallback_encodings, idx, attempts,
          result, exc, ret, branch, propagated>>

(* ------------------------------ bounds -------------------------------- *)

\* Longest tail appended to a signature (or near-signature) head.
MaxTail == 2
\* Longest sequence of the two-letter alphabet that probes the 30% ratio.
MaxRatioLen == 11
\* Longest fallback list a caller passes.
MaxFallbacks == 2

(* ------------------------- program constants -------------------------- *)

DefaultSampleSize == 1024
PreviewBytes == 20
ErrorPreviewBytes == 100

(* ------------------------------ helpers ------------------------------- *)

Min(a, b) == IF a < b THEN a ELSE b
Max(a, b) == IF a > b THEN a ELSE b

\* All sequences over S of length at most n.
SeqsUpTo(S, n) == UNION {[1..k -> S] : k \in 0..n}

\* Python's s[:n]: the first n elements, or all but the last -n for n < 0.
SliceTo(s, n) ==
    IF n >= 0 THEN SubSeq(s, 1, Min(n, Len(s)))
    ELSE SubSeq(s, 1, Max(Len(s) + n, 0))

\* bytes.startswith
startswith(s, p) == Len(p) <= Len(s) /\ SubSeq(s, 1, Len(p)) = p

\* bytes.hex(): two lower-case hex digits per byte.
HexDigits == <<"0", "1", "2", "3", "4", "5", "6", "7",
               "8", "9", "a", "b", "c", "d", "e", "f">>

RECURSIVE hex(_)
hex(s) ==
    IF s = <<>> THEN <<>>
    ELSE <<HexDigits[(Head(s) \div 16) + 1], HexDigits[(Head(s) % 16) + 1]>>
         \o hex(Tail(s))

(* ------------------------- guess_content_type ------------------------- *)

sig_pdf == <<37, 80, 68, 70, 45>>
sig_zip == <<80, 75, 3, 4>>
sig_png == <<137, 80, 78, 71>>
sig_jpeg == <<255, 216, 255>>
sig_gzip == <<31, 139>>

\* The list with its last entry (gzip) left out.
binary_sigs_without_gzip == <<sig_pdf, sig_zip, sig_png, sig_jpeg>>

binary_sigs == <<sig_pdf, sig_zip, sig_png, sig_jpeg, sig_gzip>>

\* A byte counted as a control byte when the bound is off by one (b <= 32).
is_control_le32(b) == b <= 32 /\ b \notin {9, 10, 13}

\* b < 32 and b not in {9, 10, 13}
is_control(b) == b < 32 /\ b \notin {9, 10, 13}

\* sum(1 for b in sample if ...)
RECURSIVE control_chars(_)
control_chars(sample) ==
    IF sample = <<>> THEN 0
    ELSE (IF is_control(Head(sample)) THEN 1 ELSE 0) + control_chars(Tail(sample))

\* The threshold test written with >= in place of >.
exceeds_threshold_ge(count, length) == 10 * count >= 3 * length

\* control_chars > len(sample) * 0.3.  The product is a double; for every
\* length up to 5000 the comparison with an integer count agrees with the
\* exact one, 10 * count > 3 * length, which is what is computed here.
exceeds_threshold(count, length) == 10 * count > 3 * length

guess_content_type(d, n) ==
    LET sample == SliceTo(d, n)
    IN  IF \E i \in DOMAIN binary_sigs : startswith(sample, binary_sigs[i]) THEN "binary"
        ELSE IF exceeds_threshold(control_chars(sample), Len(sample)) THEN "binary"
        ELSE "text"

(* ------------------------------ codecs -------------------------------- *)

\* The outcome of bytes.decode: the text, or a UnicodeDecodeError.
DecodeError == [ok |-> FALSE, text |-> <<>>]
Decoded(t) == [ok |-> TRUE, text |-> t]

latin1_decode(d) == Decoded(d)

ascii_decode(d) ==
    IF \A i \in DOMAIN d : d[i] < 128 THEN Decoded(d) ELSE DecodeError

\* cp1252's code points for the bytes 128..159; 0 marks an undefined byte.
cp1252_high == <<8364, 0, 8218, 402, 8222, 8230, 8224, 8225,
                 710, 8240, 352, 8249, 338, 0, 381, 0,
                 0, 8216, 8217, 8220, 8221, 8226, 8211, 8212,
                 732, 8482, 353, 8250, 339, 0, 382, 376>>

cp1252_char(b) == IF b \in 128..159 THEN cp1252_high[b - 127] ELSE b

cp1252_decode(d) ==
    IF \A i \in DOMAIN d : cp1252_char(d[i]) # 0 \/ d[i] = 0
    THEN Decoded([i \in DOMAIN d |-> cp1252_char(d[i])])
    ELSE DecodeError

\* Strict UTF-8: no overlong forms, no surrogates, nothing above U+10FFFF.
utf8_cont(d, i) == i <= Len(d) /\ d[i] \in 128..191
utf8_second3(b) == IF b = 224 THEN 160..191 ELSE IF b = 237 THEN 128..159 ELSE 128..191
utf8_second4(b) == IF b = 240 THEN 144..191 ELSE IF b = 244 THEN 128..143 ELSE 128..191

RECURSIVE utf8_from(_, _, _)
utf8_from(d, i, acc) ==
    IF i > Len(d) THEN Decoded(acc)
    ELSE LET b == d[i] IN
      IF b < 128 THEN utf8_from(d, i + 1, Append(acc, b))
      ELSE IF b \in 194..223 THEN
        IF utf8_cont(d, i + 1)
        THEN utf8_from(d, i + 2, Append(acc, (b - 192) * 64 + (d[i + 1] - 128)))
        ELSE DecodeError
      ELSE IF b \in 224..239 THEN
        IF i + 2 <= Len(d) /\ d[i + 1] \in utf8_second3(b) /\ utf8_cont(d, i + 2)
        THEN utf8_from(d, i + 3, Append(acc, (b - 224) * 4096 + (d[i + 1] - 128) * 64
                                              + (d[i + 2] - 128)))
        ELSE DecodeError
      ELSE IF b \in 240..244 THEN
        IF i + 3 <= Len(d) /\ d[i + 1] \in utf8_second4(b)
           /\ utf8_cont(d, i + 2) /\ utf8_cont(d, i + 3)
        THEN utf8_from(d, i + 4, Append(acc, (b - 240) * 262144 + (d[i + 1] - 128) * 4096
                                              + (d[i + 2] - 128) * 64 + (d[i + 3] - 128)))
        ELSE DecodeError
      ELSE DecodeError

\* A UTF-8 decoder that only accepts the one-byte forms.
utf8_decode_onebyte(d) == ascii_decode(d)

utf8_decode(d) == utf8_from(d, 1, <<>>)

\* UTF-16 with BOM detection; without a BOM the platform's byte order.
bom_le == <<255, 254>>
bom_be == <<254, 255>>

utf16_unit(d, i, order) ==
    IF order = "little" THEN d[i] + 256 * d[i + 1] ELSE 256 * d[i] + d[i + 1]

RECURSIVE utf16_from(_, _, _, _)
utf16_from(d, i, order, acc) ==
    IF i > Len(d) THEN Decoded(acc)
    ELSE IF i + 1 > Len(d) THEN DecodeError
    ELSE LET u == utf16_unit(d, i, order) IN
      IF u \in 55296..56319 THEN
        IF i + 3 <= Len(d) /\ utf16_unit(d, i + 2, order) \in 56320..57343
        THEN utf16_from(d, i + 4, order,
                        Append(acc, 65536 + (u - 55296) * 1024
                                    + (utf16_unit(d, i + 2, order) - 56320)))
        ELSE DecodeError
      ELSE IF u \in 56320..57343 THEN DecodeError
      ELSE utf16_from(d, i + 2, order, Append(acc, u))

utf16_decode(d, native) ==
    IF startswith(d, bom_le) THEN utf16_from(d, 3, "little", <<>>)
    ELSE IF startswith(d, bom_be) THEN utf16_from(d, 3, "big", <<>>)
    ELSE utf16_from(d, 1, native, <<>>)

\* The codec an encoding name resolves to (codecs normalises the name).
codec(enc) ==
    CASE enc \in {"utf-8", "utf8"} -> "utf_8"
      [] enc = "latin1" -> "latin_1"
      [] enc = "cp1252" -> "cp1252"
      [] enc = "ascii" -> "ascii"
      [] enc = "utf-16" -> "utf_16"

\* data.decode(enc) on a platform of byte order `native`.
decode(d, enc, native) ==
    CASE codec(enc) = "utf_8" -> utf8_decode(d)
      [] codec(enc) = "latin_1" -> latin1_decode(d)
      [] codec(enc) = "cp1252" -> cp1252_decode(d)
      [] codec(enc) = "ascii" -> ascii_decode(d)
      [] codec(enc) = "utf_16" -> utf16_decode(d, native)

(* ------------------------- values and inputs -------------------------- *)

\* Optional[List[str]]: None, or a list.
None == [given |-> FALSE, list |-> <<>>]
Some(l) == [given |-> TRUE, list |-> l]

\* Python truthiness of an Optional[List[str]]: None and [] are falsy.
truthy(opt) == opt.given /\ opt.list # <<>>

Encodings == {"utf-8", "utf8", "latin1", "cp1252", "ascii", "utf-16"}
FallbackChoices == {"utf-8", "latin1", "cp1252", "ascii", "utf-16"}

BlobNames == {"report.csv", "DATA.TSV", "notes.txt"}

\* Path(blob_name).suffix.lower()
suffix_lower(name) ==
    CASE name = "report.csv" -> ".csv"
      [] name = "DATA.TSV" -> ".tsv"
      [] name = "notes.txt" -> ".txt"

default_fallbacks == <<"latin1", "cp1252", "ascii">>
csv_fallbacks == <<"latin1", "cp1252", "utf-16", "ascii">>

NoResult == [text |-> <<>>, enc |-> "none"]
NoExc == [cls |-> "none", template |-> "none", preview |-> <<>>, tried |-> <<>>]
NoRet == [kind |-> "none", text |-> <<>>, enc |-> "none"]

\* ValueError raised at blob_reader.py line 129.
binary_error(d) ==
    [cls |-> "ValueError", template |-> "binary",
     preview |-> hex(SliceTo(d, PreviewBytes)), tried |-> <<>>]

\* UnicodeError raised at blob_reader.py line 148.
exhausted_error(d, primary, fallbacks) ==
    [cls |-> "UnicodeError", template |-> "exhausted",
     preview |-> hex(SliceTo(d, ErrorPreviewBytes)),
     tried |-> <<primary>> \o fallbacks]

\* The built-in exception hierarchy: UnicodeError derives from ValueError.
superclasses(cls) ==
    CASE cls = "UnicodeError" -> {"UnicodeError", "ValueError", "Exception"}
      [] cls = "ValueError" -> {"ValueError", "Exception"}
      [] OTHER -> {}

isinstance(e, cls) == cls \in superclasses(e.cls)

\* "appears to be binary" in str(e): the phrase is part of the literal text
\* of the binary-content message only; the interpolated parts of either
\* message are hex digits and encoding names.
appears_to_be_binary(e) == e.template = "binary"

\* Text whose UTF-8 form is part of the stored blobs.
Texts == {<<>>, <<72, 105, 10>>, <<99, 233>>, <<8364>>, <<128512>>,
          <<37, 80, 68, 70, 45, 49>>, <<0, 0, 97>>, <<0, 97, 97, 97>>}

\* str.encode('utf-8') of a text without surrogates.
RECURSIVE utf8_encode(_)
utf8_encode(t) ==
    IF t = <<>> THEN <<>>
    ELSE LET c == Head(t) IN
      (IF c < 128 THEN <<c>>
       ELSE IF c < 2048 THEN <<192 + (c \div 64), 128 + (c % 64)>>
       ELSE IF c < 65536 THEN <<224 + (c \div 4096), 128 + ((c \div 64) % 64), 128 + (c % 64)>>
       ELSE <<240 + (c \div 262144), 128 + ((c \div 4096) % 64),
              128 + ((c \div 64) % 64), 128 + (c % 64)>>)
      \o utf8_encode(Tail(t))

\* Blob contents: UTF-8 text, single-byte encoded text, malformed UTF-8,
\* UTF-16 with and without BOM, each binary signature, and two blobs longer
\* than the error previews.
DecodeData ==
    {utf8_encode(t) : t \in Texts}
    \cup { <<99, 97, 102, 233>>, <<129>>, <<128>>, <<192, 128>>, <<237, 160, 128>>,
           <<226, 130>>, <<244, 144, 128, 128>>,
           <<255, 254, 65, 0>>, <<254, 255, 0, 65>>, <<65, 216>>, <<61, 216, 0, 222>>,
           <<65, 0>>, <<45, 78>>,
           sig_pdf, sig_zip \o <<20>>, sig_png \o <<13, 10>>, sig_jpeg \o <<224>>,
           sig_gzip \o <<8>>,
           sig_png \o [i \in 1..PreviewBytes |-> 97],
           <<129>> \o [i \in 1..ErrorPreviewBytes |-> 97] }

FallbackArgs == {None} \cup {Some(l) : l \in SeqsUpTo(FallbackChoices, MaxFallbacks)}

\* Classifier inputs: a signature, a signature cut short or nothing,
\* followed by a short tail; and longer strings of NUL and 'a'.
FileHeaders == {sig_pdf, sig_zip, sig_png, sig_jpeg, sig_gzip}
Heads ==
    {<<>>} \cup FileHeaders \cup {SubSeq(h, 1, Len(h) - 1) : h \in FileHeaders}
TailBytes == {0, 9, 10, 13, 31, 32, 97, 200}
RatioBytes == {0, 97}
ClassifyData ==
    {h \o t : h \in Heads, t \in SeqsUpTo(TailBytes, MaxTail)}
    \cup SeqsUpTo(RatioBytes, MaxRatioLen)
SampleSizes == 0..(MaxRatioLen + 1) \cup {DefaultSampleSize}

(* --------------------- the classifier, called alone ------------------- *)

ClassifierIdle ==
    /\ c_data = <<>>
    /\ sample_size = DefaultSampleSize
    /\ verdict = "none"
    /\ c_pc = "idle"

DecoderIdle ==
    /\ byteorder = "little"
    /\ blob_name = "notes.txt"
    /\ blob_data = <<>>
    /\ encoding = "utf-8"
    /\ caller_fallbacks = None
    /\ pc = "idle"
    /\ data = <<>>
    /\ sd_arg = None
    /\ fallback_encodings = <<>>
    /\ idx = 0
    /\ attempts = <<>>
    /\ result = NoResult
    /\ exc = NoExc
    /\ ret = NoRet
    /\ branch = "none"
    /\ propagated = FALSE

InitClassify ==
    /\ c_data \in ClassifyData
    /\ sample_size \in SampleSizes
    /\ verdict = "none"
    /\ c_pc = "call"
    /\ DecoderIdle

\* guess_content_type(c_data, sample_size)
Classify ==
    /\ c_pc = "call"
    /\ verdict' = guess_content_type(c_data, sample_size)
    /\ c_pc' = "done"
    /\ UNCHANGED <<c_data, sample_size>>
    /\ UNCHANGED decoder_vars

NextClassify == Classify

SpecClassify == InitClassify /\ [][NextClassify]_vars

(* ------------- download_and_show -> download_blob_to_text ------------- *)

Init ==
    /\ ClassifierIdle
    /\ byteorder \in {"little", "big"}
    /\ blob_name \in BlobNames
    /\ blob_data \in DecodeData
    /\ encoding \in Encodings
    /\ caller_fallbacks \in FallbackArgs
    /\ pc = "call"
    /\ data = <<>>
    /\ sd_arg = None
    /\ fallback_encodings = <<>>
    /\ idx = 0
    /\ attempts = <<>>
    /\ result = NoResult
    /\ exc = NoExc
    /\ ret = NoRet
    /\ branch = "none"
    /\ propagated = FALSE

inputs == <<byteorder, blob_name, blob_data, encoding, caller_fallbacks>>

\* download_blob_to_text, lines 177-185: the download, the extension
\* override, and the call of safe_decode.
download_blob_to_text ==
    /\ pc = "call"
    /\ data' = blob_data
    /\ sd_arg' = IF suffix_lower(blob_name) \in {".csv", ".tsv"} /\ encoding = "utf-8"
                 THEN Some(csv_fallbacks)
                 ELSE caller_fallbacks
    /\ pc' = "safe_decode"
    /\ UNCHANGED <<fallback_encodings, idx, attempts, result, exc, ret, branch, propagated>>
    /\ UNCHANGED inputs
    /\ UNCHANGED classifier_vars

\* The binary test made with a sample too short for the longest signature.
is_binary_content_short(d) == guess_content_type(d, 4) = "binary"

\* guess_content_type(data) == 'binary', with the default sample size.
is_binary_content(d) == guess_content_type(d, DefaultSampleSize) = "binary"

\* safe_decode, lines 123-132: the default list and the binary gate.
safe_decode_enter ==
    /\ pc = "safe_decode"
    /\ fallback_encodings' = IF ~truthy(sd_arg) THEN default_fallbacks ELSE sd_arg.list
    /\ IF is_binary_content(data)
       THEN /\ exc' = binary_error(data)
            /\ pc' = "raised"
       ELSE /\ exc' = exc
            /\ pc' = "try_primary"
    /\ UNCHANGED <<data, sd_arg, idx, attempts, result, ret, branch, propagated>>
    /\ UNCHANGED inputs
    /\ UNCHANGED classifier_vars

\* safe_decode, lines 135-138: the primary encoding.
safe_decode_primary ==
    /\ pc = "try_primary"
    /\ attempts' = Append(attempts, encoding)
    /\ LET r == decode(data, encoding, byteorder) IN
       IF r.ok
       THEN /\ result' = [text |-> r.text, enc |-> encoding]
            /\ pc' = "decoded"
            /\ idx' = idx
       ELSE /\ result' = result
            /\ pc' = "fallbacks"
            /\ idx' = 1
    /\ UNCHANGED <<data, sd_arg, fallback_encodings, exc, ret, branch, propagated>>
    /\ UNCHANGED inputs
    /\ UNCHANGED classifier_vars

\* The loop taking the list from its end.
fallback_at_reversed(list, i) == list[Len(list) + 1 - i]

\* for enc in fallback_encodings: the i-th element visited.
fallback_at(list, i) == list[i]

\* safe_decode, lines 141-145: one pass of the fallback loop.
safe_decode_fallback ==
    /\ pc = "fallbacks"
    /\ idx <= Len(fallback_encodings)
    /\ LET enc == fallback_at(fallback_encodings, idx)
           r == decode(data, enc, byteorder)
       IN /\ attempts' = Append(attempts, enc)
          /\ IF r.ok
             THEN /\ result' = [text |-> r.text, enc |-> enc]
                  /\ pc' = "decoded"
                  /\ idx' = idx
             ELSE /\ result' = result
                  /\ pc' = pc
                  /\ idx' = idx + 1
    /\ UNCHANGED <<data, sd_arg, fallback_encodings, exc, ret, branch, propagated>>
    /\ UNCHANGED inputs
    /\ UNCHANGED classifier_vars

\* safe_decode, lines 148-152: every encoding failed.
safe_decode_exhausted ==
    /\ pc = "fallbacks"
    /\ idx > Len(fallback_encodings)
    /\ exc' = exhausted_error(data, encoding, fallback_encodings)
    /\ pc' = "raised"
    /\ UNCHANGED <<data, sd_arg, fallback_encodings, idx, attempts, result, ret,
                   branch, propagated>>
    /\ UNCHANGED inputs
    /\ UNCHANGED classifier_vars

\* The return value told apart by comparing with 'utf-8', not the argument.
return_value_utf8(decoded, used_encoding, enc) ==
    IF used_encoding # "utf-8"
    THEN [kind |-> "pair", text |-> decoded, enc |-> used_encoding]
    ELSE [kind |-> "str", text |-> decoded, enc |-> "none"]

\* Lines 186-189: (decoded, used_encoding) or the bare decoded.
return_value(decoded, used_encoding, enc) ==
    IF used_encoding # enc
    THEN [kind |-> "pair", text |-> decoded, enc |-> used_encoding]
    ELSE [kind |-> "str", text |-> decoded, enc |-> "none"]

\* download_blob_to_text, lines 185-189: safe_decode returned.
download_blob_to_text_return ==
    /\ pc = "decoded"
    /\ ret' = return_value(result.text, result.enc, encoding)
    /\ pc' = "returned"
    /\ UNCHANGED <<data, sd_arg, fallback_encodings, idx, attempts, result, exc,
                   branch, propagated>>
    /\ UNCHANGED inputs
    /\ UNCHANGED classifier_vars

\* download_and_show, lines 64-77: the text preview.
download_and_show_text ==
    /\ pc = "returned"
    /\ branch' = "text"
    /\ pc' = "done"
    /\ UNCHANGED <<data, sd_arg, fallback_encodings, idx, attempts, result, exc, ret,
                   propagated>>
    /\ UNCHANGED inputs
    /\ UNCHANGED classifier_vars

\* download_and_show, lines 79-97: the except clauses, tried in order.
\* An exception raised by safe_decode passes through download_blob_to_text.
download_and_show_except ==
    /\ pc = "raised"
    /\ IF isinstance(exc, "ValueError")
       THEN IF appears_to_be_binary(exc)
            THEN /\ branch' = "binary"
                 /\ propagated' = FALSE
            ELSE /\ branch' = "reraise"
                 /\ propagated' = TRUE
       ELSE IF isinstance(exc, "UnicodeError")
            THEN /\ branch' = "decode_failure"
                 /\ propagated' = FALSE
            ELSE /\ branch' = "none"
                 /\ propagated' = TRUE
    /\ pc' = "done"
    /\ UNCHANGED <<data, sd_arg, fallback_encodings, idx, attempts, result, exc, ret>>
    /\ UNCHANGED inputs
    /\ UNCHANGED classifier_vars

Next ==
    \/ download_blob_to_text
    \/ safe_decode_enter
    \/ safe_decode_primary
    \/ safe_decode_fallback
    \/ safe_decode_exhausted
    \/ download_blob_to_text_return
    \/ download_and_show_text
    \/ download_and_show_except

Spec == Init /\ [][Next]_vars

(* ------------------------------ claims -------------------------------- *)

KnownSignatures ==
    { <<37, 80, 68, 70, 45>>, <<80, 75, 3, 4>>, <<137, 80, 78, 71>>,
      <<255, 216, 255>>, <<31, 139>> }

StartsWithSignature(s) == \E sig \in KnownSignatures : startswith(s, sig)

\* C1: a byte sequence that starts with a known binary signature is
\* classified 'binary' with the default sample size, whatever follows.
C1_SignatureIsBinary ==
    (c_pc = "done" /\ sample_size = DefaultSampleSize /\ StartsWithSignature(c_data))
        => verdict = "binary"

\* C1 witness: the gzip signature followed by two printable bytes.
C1_Witness ==
    /\ c_pc = "done"
    /\ sample_size = DefaultSampleSize
    /\ c_data = <<31, 139, 97, 32>>
    /\ verdict = "binary"

AllPrintableAscii(s) == \A i \in DOMAIN s : s[i] \in 32..126

\* C2 as stated: every sequence of printable ASCII bytes is classified
\* 'text'.
C2_PrintableIsText ==
    (c_pc = "done" /\ AllPrintableAscii(c_data)) => verdict = "text"

\* C2 amended: every sequence of printable ASCII bytes that does not begin
\* with the PDF signature '%PDF-' is classified 'text', for every sample size.
C2_PrintableNotPdfIsText ==
    (c_pc = "done" /\ AllPrintableAscii(c_data) /\ ~startswith(c_data, <<37, 80, 68, 70, 45>>))
        => verdict = "text"

\* C2 witness: "%PDF a", printable and one byte away from the PDF signature.
C2_Witness ==
    /\ c_pc = "done"
    /\ c_data = <<37, 80, 68, 70, 32, 97>>
    /\ sample_size = DefaultSampleSize
    /\ verdict = "text"

\* The first sample_size bytes, or all bytes if there are fewer.
C3Sample == [i \in 1..Min(sample_size, Len(c_data)) |-> c_data[i]]
C3ControlCount ==
    Cardinality({i \in DOMAIN C3Sample : C3Sample[i] < 32 /\ C3Sample[i] \notin {9, 10, 13}})

\* C3: when the sample does not start with a signature, the verdict is
\* 'binary' exactly when strictly more than 30% of the sample bytes are
\* control bytes other than tab, LF and CR, and 'text' otherwise; the bytes
\* beyond the sample play no part.
C3_RatioRule ==
    (c_pc = "done" /\ ~StartsWithSignature(C3Sample))
        => /\ verdict \in {"binary", "text"}
           /\ verdict = "binary" <=> 10 * C3ControlCount > 3 * Len(C3Sample)

\* C3 witness: a sample of ten bytes with exactly three control bytes is
\* 'text', although the byte after the sample is a fourth control byte.
C3_Witness ==
    /\ c_pc = "done"
    /\ sample_size = 10
    /\ Len(c_data) = 11
    /\ c_data[11] = 0
    /\ C3ControlCount = 3
    /\ verdict = "text"

ClassifiedBinary(d) ==
    \/ StartsWithSignature(d)
    \/ 10 * Cardinality({i \in DOMAIN d : d[i] < 32 /\ d[i] \notin {9, 10, 13}}) > 3 * Len(d)

HexValue(c) == CHOOSE k \in 0..15 : HexDigits[k + 1] = c

\* p is the hex form of the first n bytes of d.
IsHexPreview(p, d, n) ==
    /\ Len(p) = 2 * Min(n, Len(d))
    /\ \A i \in 1..Min(n, Len(d)) :
          16 * HexValue(p[2 * i - 1]) + HexValue(p[2 * i]) = d[i]

SafeDecodeEntered == pc \in {"try_primary", "fallbacks", "decoded", "raised", "returned", "done"}
SafeDecodeLeft == pc \in {"decoded", "raised", "returned", "done"}

\* C4: on input classified 'binary', safe_decode raises the binary-content
\* ValueError, with the hex of the first 20 bytes, and no encoding is ever
\* tried.
C4_BinaryNeverDecoded ==
    (pc # "call" /\ ClassifiedBinary(data))
        => /\ attempts = <<>>
           /\ result = NoResult
           /\ SafeDecodeEntered
                => /\ pc \in {"raised", "done"}
                   /\ exc.cls = "ValueError"
                   /\ exc.template = "binary"
                   /\ IsHexPreview(exc.preview, data, 20)

\* C4 witness: a PNG blob longer than the preview, primary encoding latin1
\* (which decodes any bytes), ended in the binary-content error.
C4_Witness ==
    /\ pc = "raised"
    /\ Len(data) > 20
    /\ encoding = "latin1"
    /\ exc.cls = "ValueError"
    /\ Len(exc.preview) = 40
    /\ attempts = <<>>

\* safe_decode(data, 'utf-8', []) was called with data the UTF-8 form of t
\* and has ended.
C5Case(t) ==
    /\ SafeDecodeLeft
    /\ data = utf8_encode(t)
    /\ encoding = "utf-8"
    /\ sd_arg = Some(<<>>)

\* C5 as stated: safe_decode(data, 'utf-8', []) on valid UTF-8 returns
\* (text, 'utf-8').
C5_ValidUtf8Decodes ==
    \A t \in Texts :
        C5Case(t) => result = [text |-> t, enc |-> "utf-8"] /\ exc = NoExc

\* C5 amended: safe_decode(data, 'utf-8', []) on valid UTF-8 that is
\* classified 'text' returns (text, 'utf-8'), the decoding of the whole
\* input, after the one attempt.
C5_TextUtf8Decodes ==
    \A t \in Texts :
        (C5Case(t) /\ ~ClassifiedBinary(data))
            => /\ result = [text |-> t, enc |-> "utf-8"]
               /\ exc = NoExc
               /\ attempts = <<"utf-8">>

\* C5 witness: the four-byte form of U+1F600 decoded by the primary.
C5_Witness ==
    /\ C5Case(<<128512>>)
    /\ Len(data) = 4
    /\ result = [text |-> <<128512>>, enc |-> "utf-8"]

AttemptOrder == <<encoding>> \o fallback_encodings
Decodes(enc) == decode(data, enc, byteorder).ok

\* t is all of d under a codec that maps bytes one to one, or under UTF-8.
WholeInput(t, d, enc) ==
    /\ codec(enc) \in {"latin_1", "ascii", "cp1252"} => Len(t) = Len(d)
    /\ codec(enc) = "utf_8" => utf8_encode(t) = d
    /\ t = decode(d, enc, byteorder).text

\* C6: on text-classified input the encodings are tried in the order
\* primary, then the fallback list in list order; every attempt before the
\* last failed; a result is the whole input decoded by the last encoding
\* tried; the exhausted error comes only after the whole order failed.
C6_OrderedFirstSuccess ==
    (SafeDecodeEntered /\ ~ClassifiedBinary(data))
        => /\ Len(attempts) <= Len(AttemptOrder)
           /\ \A i \in DOMAIN attempts : attempts[i] = AttemptOrder[i]
           /\ \A i \in 1..(Len(attempts) - 1) : ~Decodes(attempts[i])
           /\ result # NoResult
                => /\ attempts # <<>>
                   /\ result.enc = attempts[Len(attempts)]
                   /\ Decodes(result.enc)
                   /\ WholeInput(result.text, data, result.enc)
           /\ (result = NoResult /\ SafeDecodeLeft)
                => /\ attempts = AttemptOrder
                   /\ \A i \in DOMAIN attempts : ~Decodes(attempts[i])
                   /\ exc.cls = "UnicodeError"

\* C6 witness: the primary failed, the first fallback decoded, and the
\* second fallback, which would decode too, was never tried.
C6_Witness ==
    /\ pc = "done"
    /\ caller_fallbacks.given
    /\ Len(fallback_encodings) = 2
    /\ Len(attempts) = 2
    /\ result.enc = fallback_encodings[1]
    /\ fallback_encodings[2] # fallback_encodings[1]
    /\ Decodes(fallback_encodings[2])

\* C7: for every fallback list the caller passes, the empty list included,
\* text-classified input that decodes under none of [primary] + fallbacks
\* ends in the UnicodeError listing exactly [primary] + fallbacks.
C7_ExhaustedListsAttempted ==
    ( /\ SafeDecodeLeft
      /\ sd_arg.given
      /\ ~ClassifiedBinary(data)
      /\ ~Decodes(encoding)
      /\ \A i \in DOMAIN sd_arg.list : ~Decodes(sd_arg.list[i]) )
        => /\ result = NoResult
           /\ exc.cls = "UnicodeError"
           /\ exc.tried = <<encoding>> \o sd_arg.list

IsPrefix(p, s) == Len(p) <= Len(s) /\ \A i \in DOMAIN p : p[i] = s[i]

\* C8: when the caller passes a fallback list to download_blob_to_text, the
\* encodings tried are the primary and then the caller's list, in the
\* caller's order, for every blob name and primary encoding.
C8_CallerListUsed ==
    (SafeDecodeEntered /\ caller_fallbacks.given)
        => /\ IsPrefix(attempts, <<encoding>> \o caller_fallbacks.list)
           /\ exc.cls = "UnicodeError" => exc.tried = <<encoding>> \o caller_fallbacks.list

C10_FailureKindsSeparate ==
    pc = "done"
        => /\ (exc.cls = "ValueError" /\ exc.template = "binary") => branch = "binary"
           /\ exc.cls = "UnicodeError" => branch = "decode_failure" /\ ~propagated

=============================================================================
